---- MODULE Spec2Model ----
(***************************************************************************)
(* A model of the bellt router (src/bellt.go).                             *)
(*                                                                         *)
(* Strings that the code takes apart (paths, prefixes, variable names and  *)
(* values) are sequences of one-character strings, so that the regular     *)
(* expressions and the strings.Split / strings.Replace calls of the code   *)
(* are computed character by character.  Handlers, HTTP methods and        *)
(* response bodies are only ever compared for equality and are atoms.      *)
(*                                                                         *)
(* The process-wide state is the router (routes, built) and the default    *)
(* ServeMux of net/http (mux), which the code fills through                *)
(* http.HandleFunc.  In Spec a request is handled in one step: dispatch by  *)
(* the mux, then the handler closure the mux holds for the pattern.  In    *)
(* SpecConc the requests in flight take the statements of                  *)
(* redirectBuiltRoute one at a time, interleaved; SpecNew starts before    *)
(* the first NewRouter call.                                               *)
(***************************************************************************)
EXTENDS Integers, Sequences, FiniteSets, TLC

VARIABLES
    routes,     \* Router.routes : sequence of Route
    built,      \* Router.built  : sequence of BuiltRoute
    mux,        \* http.DefaultServeMux : pattern -> handler closure
    crashed,    \* TRUE once a panic has left the registering goroutine
    last,       \* the last operation and what the client observed
    nReg,       \* number of registration calls so far
    nReq,       \* number of requests so far
    direct,     \* a second router, driven by direct HandleFunc calls
    todo,       \* the direct HandleFunc calls still to make
    subs,       \* the SubHandles built for the next HandleGroup call
    useMw,      \* Use: the middleware list
    useX,       \* Use: the loop variable x
    useH,       \* Use: the handler built so far
    usePc,      \* Use: "loop", "serve" or "done"
    useDepth,   \* serving: how many middlewares have been entered
    useLog,     \* serving: the events executed so far
    mainRouter, \* the package variable mainRouter: 0 is nil, else the instance
    ret,        \* the instance the last NewRouter call returned
    nNew,       \* number of NewRouter calls so far
    procs       \* the requests in flight, each with its position and locals

routerVars == <<routes, built, mux, crashed, last, nReg, nReq>>
groupVars  == <<direct, todo, subs>>
useVars    == <<useMw, useX, useH, usePc, useDepth, useLog>>
newVars    == <<mainRouter, ret, nNew>>
concVars   == <<procs>>
vars       == <<routerVars, groupVars, useVars, newVars, concVars>>

----------------------------------------------------------------------------
(* Bounds of the model *)

MaxReg == 2        \* registration calls in one behaviour
MaxReq == 2        \* requests in one behaviour
MaxMw  == 3        \* length of the middleware list given to Use
MaxSubs == 2       \* sub-routes given to one HandleGroup call

----------------------------------------------------------------------------
(* Characters and generic string functions *)

WordChars == {"u", "x", "s", "i", "j", "1", "2"}

\* \w of the regular expression {(\w*)}
IsWord(c) == c \in WordChars

\* s[from..] (1-based), "" when from is past the end
Drop(s, from) == SubSeq(s, from, Len(s))

\* does pat occur in s at position p
OccursAt(s, pat, p) ==
    /\ p >= 1
    /\ p + Len(pat) - 1 <= Len(s)
    /\ SubSeq(s, p, p + Len(pat) - 1) = pat

\* position of the leftmost occurrence of the non-empty pat in s at or
\* after p, 0 when there is none
RECURSIVE IndexFrom(_, _, _)
IndexFrom(s, pat, p) ==
    IF p + Len(pat) - 1 > Len(s) THEN 0
    ELSE IF OccursAt(s, pat, p) THEN p
    ELSE IndexFrom(s, pat, p + 1)

\* strings.Split(s, sep) for a non-empty sep: the pieces between the
\* leftmost non-overlapping occurrences of sep; always at least one piece
RECURSIVE StringsSplit(_, _)
StringsSplit(s, sep) ==
    LET p == IndexFrom(s, sep, 1)
    IN  IF p = 0 THEN <<s>>
        ELSE <<SubSeq(s, 1, p - 1)>> \o StringsSplit(Drop(s, p + Len(sep)), sep)

\* strings.Replace(s, old, new, -1) for a non-empty old
RECURSIVE StringsReplaceAll(_, _, _)
StringsReplaceAll(s, old, new) ==
    LET p == IndexFrom(s, old, 1)
    IN  IF p = 0 THEN s
        ELSE SubSeq(s, 1, p - 1) \o new
                \o StringsReplaceAll(Drop(s, p + Len(old)), old, new)

----------------------------------------------------------------------------
(* The template parser: getBuiltRouteParams *)

\* first position at or after q whose character is not a word character,
\* Len(s) + 1 when there is none
RECURSIVE WordEnd(_, _)
WordEnd(s, q) ==
    IF q > Len(s) THEN Len(s) + 1
    ELSE IF IsWord(s[q]) THEN WordEnd(s, q + 1)
    ELSE q

\* the regular expression {(\w*)} matched at position p: the position of
\* the closing brace, 0 when it does not match there
VarMatchEnd(s, p) ==
    IF p > Len(s) \/ s[p] # "{" THEN 0
    ELSE LET q == WordEnd(s, p + 1)
         IN  IF q <= Len(s) /\ s[q] = "}" THEN q ELSE 0

\* start of the leftmost match of {(\w*)} at or after p, 0 when none
RECURSIVE FirstVarPos(_, _)
FirstVarPos(s, p) ==
    IF p > Len(s) THEN 0
    ELSE IF VarMatchEnd(s, p) # 0 THEN p
    ELSE FirstVarPos(s, p + 1)

\* rgx.FindAllStringSubmatch(path, -1), keeping submatch 1 (the name) of
\* every match; the empty sequence stands for Go's nil
RECURSIVE FindAllNames(_, _)
FindAllNames(s, p) ==
    LET b == FirstVarPos(s, p)
    IN  IF b = 0 THEN <<>>
        ELSE LET e == VarMatchEnd(s, b)
             IN  <<SubSeq(s, b + 1, e - 1)>> \o FindAllNames(s, e + 1)

\* rgx.Split(path, -1)[0]: what precedes the first {name}
SplitHead(s) ==
    LET b == FirstVarPos(s, 1)
    IN  IF b = 0 THEN s ELSE SubSeq(s, 1, b - 1)

\* rgxStart.ReplaceAllString(s, ""): drops one leading slash
TrimStart(s) == IF Len(s) > 0 /\ s[1] = "/" THEN Drop(s, 2) ELSE s

\* rgxEnd.ReplaceAllString(s, ""): drops one trailing slash
TrimEnd(s) ==
    IF Len(s) > 0 /\ s[Len(s)] = "/" THEN SubSeq(s, 1, Len(s) - 1) ELSE s

getBuiltRouteParams(path) ==
    [key    |-> TrimEnd(TrimStart(SplitHead(path))),
     values |-> FindAllNames(path, 1)]

----------------------------------------------------------------------------
(* Methods and handler closures *)

methods == {"GET", "POST", "PUT", "DELETE"}

checkMethod(m) == m \in methods

BodyNotFound == "{\"msg\": \"route not found\"}"
BodyMethod   == "{\"error\": \"The method for this route doesnt exist\"}"
BodyHealth   == "{\"alive\": \"Server running\"}"

\* the closures the code registers with the mux or serves directly
healthApplication == [kind |-> "health", next |-> "none", ms |-> <<>>, params |-> <<>>]
redirectClosure   == [kind |-> "redirect", next |-> "none", ms |-> <<>>, params |-> <<>>]

\* gateMethod(next, ms...)
gateMethod(next, ms) == [kind |-> "gate", next |-> next, ms |-> ms, params |-> <<>>]

\* setRouteParams(closure, params)
setRouteParams(closure, params) == [closure EXCEPT !.params = params]

\* every context.WithValue applied to the request's own context instead
\* of the context built so far: only the last pair stays bound
WithValuesLast(ctx, params) ==
    IF params = <<>> THEN ctx
    ELSE LET p == params[Len(params)]
         IN  [n \in DOMAIN ctx \cup {p.Name} |->
                 IF n = p.Name THEN p.Value ELSE ctx[n]]

\* context.WithValue for every parameter in turn: a later pair with the
\* same name hides an earlier one.  The context is a function from the
\* bound names to their values.
RECURSIVE WithValues(_, _)
WithValues(ctx, params) ==
    IF params = <<>> THEN ctx
    ELSE LET p  == Head(params)
             c2 == [n \in DOMAIN ctx \cup {p.Name} |->
                        IF n = p.Name THEN p.Value ELSE ctx[n]]
         IN  WithValues(c2, Tail(params))

EmptyCtx == [n \in {} |-> <<>>]

\* ParamReceiver.GetVar: the value in the request context, or nil
GetVar(ctx, name) ==
    IF name \in DOMAIN ctx THEN [nil |-> FALSE, value |-> ctx[name]]
    ELSE [nil |-> TRUE, value |-> <<>>]

NoResponse == [kind |-> "none", status |-> 0, body |-> "", handler |-> "none",
               ctx |-> EmptyCtx]

\* the gate of gateMethod: does the loop over ms find the request method
GatePasses(ms, method) == \E i \in 1..Len(ms) : ms[i] = method

\* ServeHTTP of a gate closure (wrapped by setRouteParams or not)
ServeGate(c, method) ==
    IF GatePasses(c.ms, method)
    THEN [kind |-> "handler", status |-> 200, body |-> "", handler |-> c.next,
          ctx |-> WithValues(EmptyCtx, c.params)]
    ELSE [kind |-> "methodRejected", status |-> 404, body |-> BodyMethod,
          handler |-> "none", ctx |-> EmptyCtx]

ServeHealth ==
    [kind |-> "health", status |-> 200, body |-> BodyHealth, handler |-> "none",
     ctx |-> EmptyCtx]

\* a not-found answer that carries the method error body
ServeNotFoundMethodBody ==
    [kind |-> "notFound", status |-> 404, body |-> BodyMethod,
     handler |-> "none", ctx |-> EmptyCtx]

ServeNotFound ==
    [kind |-> "notFound", status |-> 404, body |-> BodyNotFound,
     handler |-> "none", ctx |-> EmptyCtx]

\* a panic inside a handler: net/http recovers it and drops the connection
ServePanic ==
    [kind |-> "panic", status |-> 0, body |-> "", handler |-> "none",
     ctx |-> EmptyCtx]

\* the mux's own redirect of /tree to a registered /tree/
ServeSlashRedirect ==
    [kind |-> "slashRedirect", status |-> 301, body |-> "", handler |-> "none",
     ctx |-> EmptyCtx]

----------------------------------------------------------------------------
(* The default ServeMux, as http.HandleFunc and the server use it *)

IsPrefix(p, s) == Len(p) <= Len(s) /\ SubSeq(s, 1, Len(p)) = p

\* http.HandleFunc panics on an empty pattern and on a second registration
MuxWouldPanic(M, pattern) == pattern = <<>> \/ pattern \in DOMAIN M

MuxRegister(M, pattern, closure) ==
    [p \in DOMAIN M \cup {pattern} |-> IF p = pattern THEN closure ELSE M[p]]

\* patterns ending in a slash name a subtree
SubtreePatterns(M, path) ==
    {p \in DOMAIN M : Len(p) > 0 /\ p[Len(p)] = "/" /\ IsPrefix(p, path)}

\* the handler the mux chooses: the exact pattern, else a redirect to
\* path + "/" when that is registered, else the longest subtree pattern
MuxDispatch(M, path) ==
    IF path \in DOMAIN M THEN [kind |-> "exact", pattern |-> path]
    ELSE IF (path \o <<"/">>) \in DOMAIN M
    THEN [kind |-> "slash", pattern |-> path \o <<"/">>]
    ELSE LET c == SubtreePatterns(M, path)
             p == CHOOSE x \in c : \A y \in c : Len(y) <= Len(x)
         IN  [kind |-> "subtree", pattern |-> p]

----------------------------------------------------------------------------
(* Route, BuiltRoute and the registration side of the router *)

Route(path, handler, params) ==
    [Path |-> path, Handler |-> handler, Params |-> params]

Variable(name, value) == [Name |-> name, Value |-> value]

\* the router together with the mux it registers into
RouterState(r, b, m, c) == [routes |-> r, built |-> b, mux |-> m, crashed |-> c]

\* a validation that keeps only the verdict on the last method
RouteMethodsLastErr(route, ms, M) ==
    LET err     == Len(ms) > 0 /\ ~checkMethod(ms[Len(ms)])
        closure == IF Len(route.Params) > 0
                   THEN setRouteParams(gateMethod(route.Handler, ms), route.Params)
                   ELSE gateMethod(route.Handler, ms)
    IN  IF err THEN [err |-> TRUE, panic |-> FALSE, mux |-> M]
        ELSE IF MuxWouldPanic(M, route.Path)
        THEN [err |-> FALSE, panic |-> TRUE, mux |-> M]
        ELSE [err |-> FALSE, panic |-> FALSE,
              mux |-> MuxRegister(M, route.Path, closure)]

\* Route.methods: err is set when some method is not allowed; without an
\* error the route is registered with the mux, which may panic
RouteMethods(route, ms, M) ==
    LET err     == \E i \in 1..Len(ms) : ~checkMethod(ms[i])
        closure == IF Len(route.Params) > 0
                   THEN setRouteParams(gateMethod(route.Handler, ms), route.Params)
                   ELSE gateMethod(route.Handler, ms)
    IN  IF err THEN [err |-> TRUE, panic |-> FALSE, mux |-> M]
        ELSE IF MuxWouldPanic(M, route.Path)
        THEN [err |-> FALSE, panic |-> TRUE, mux |-> M]
        ELSE [err |-> FALSE, panic |-> FALSE,
              mux |-> MuxRegister(M, route.Path, closure)]

\* http.HandleFunc(pattern, closure) on router state S: a panic leaves the
\* mux as it was
HttpHandleFunc(S, pattern, closure) ==
    IF S.crashed THEN S
    ELSE IF MuxWouldPanic(S.mux, pattern) THEN [S EXCEPT !.crashed = TRUE]
    ELSE [S EXCEPT !.mux = MuxRegister(@, pattern, closure)]

\* the two registrations and the allocation of NewRouter's if-body; id is
\* the instance &Router{} creates
NewRouterBody(S, id) ==
    LET S1 == HttpHandleFunc(S, <<"/", "health">>, healthApplication)
        S2 == HttpHandleFunc(S1, <<"/">>, redirectClosure)
    IN  IF S2.crashed THEN [state |-> S2, mainRouter |-> 0, panic |-> TRUE]
        ELSE [state |-> [S2 EXCEPT !.routes = <<>>, !.built = <<>>],
              mainRouter |-> id, panic |-> FALSE]

\* a NewRouter that runs its body on every call
NewRouterAlways(S, mr, id) == NewRouterBody(S, id)

\* NewRouter on router state S with mainRouter = mr (0 is nil)
NewRouterOp(S, mr, id) ==
    IF mr = 0 THEN NewRouterBody(S, id)
    ELSE [state |-> S, mainRouter |-> mr, panic |-> FALSE]

\* BuiltRoute.Var as HandleFunc fills it: position -> Variable, no value
NewVar(values) ==
    [idx \in 0..(Len(values) - 1) |-> Variable(values[idx + 1], <<>>)]

\* Router.HandleFunc on router state S
HandleFuncOp(S, path, handleFunc, ms) ==
    LET p == getBuiltRouteParams(path)
    IN  IF S.crashed THEN S
        ELSE IF p.values # <<>>
        THEN [S EXCEPT !.built = Append(@,
                 [TempPath |-> path, Handler |-> handleFunc,
                  Var |-> NewVar(p.values), KeyRoute |-> p.key, Methods |-> ms])]
        ELSE LET route == Route(path, handleFunc, <<>>)
                 r     == RouteMethods(route, ms, S.mux)
             IN  IF r.panic THEN [S EXCEPT !.crashed = TRUE]
                 ELSE IF r.err THEN S
                 ELSE [S EXCEPT !.mux = r.mux, !.routes = Append(@, route)]

\* Router.SubHandleFunc: builds a SubHandle and touches nothing else
SubHandleFunc(path, handleFunc, ms) ==
    [Path |-> path, Handler |-> handleFunc, Methods |-> ms]

\* a group that writes the sub-route's path before the main path
RECURSIVE HandleGroupOpSwapped(_, _, _)
HandleGroupOpSwapped(S, mainPath, sr) ==
    IF sr = <<>> THEN S
    ELSE LET route == Head(sr)
             buf   == route.Path \o mainPath
         IN  HandleGroupOpSwapped(
                 HandleFuncOp(S, buf, route.Handler, route.Methods),
                 mainPath, Tail(sr))

\* Router.HandleGroup: for every sub-route in order, HandleFunc of
\* mainPath followed by the sub-route's path
RECURSIVE HandleGroupOp(_, _, _)
HandleGroupOp(S, mainPath, sr) ==
    IF sr = <<>> THEN S
    ELSE LET route == Head(sr)
             buf   == mainPath \o route.Path
         IN  HandleGroupOp(HandleFuncOp(S, buf, route.Handler, route.Methods),
                           mainPath, Tail(sr))

----------------------------------------------------------------------------
(* The matcher: getRequestParams *)

\* rgx.FindString(path) # "" for the regular expression made of the
\* route's key; the keys of the model hold no regexp metacharacter
KeyFound(key, path) == key # <<>> /\ IndexFrom(path, key, 1) # 0

\* strings.Split(rgx.Split(path, -1)[1], "/")
KeySegments(key, path) == StringsSplit(StringsSplit(path, key)[2], <<"/">>)

\* the two tests of the loop body for one route
RouteMatches(route, path) ==
    /\ KeyFound(route.KeyRoute, path)
    /\ Len(KeySegments(route.KeyRoute, path)) - 1 = Cardinality(DOMAIN route.Var)

\* params after the inner loop for a matching route: entry idx-1 is
\* overwritten for every idx # 0, other entries are kept
WriteParams(params, segs) ==
    [j \in DOMAIN params \cup 0..(Len(segs) - 2) |->
        IF j \in 0..(Len(segs) - 2) THEN segs[j + 2] ELSE params[j]]

\* a matcher that stops at the first matching route
RECURSIVE MatchLoopFirst(_, _, _, _)
MatchLoopFirst(B, path, i, acc) ==
    IF i > Len(B) THEN acc
    ELSE IF RouteMatches(B[i], path)
    THEN [sel |-> i,
          params |-> WriteParams(acc.params, KeySegments(B[i].KeyRoute, path))]
    ELSE MatchLoopFirst(B, path, i + 1, acc)

\* the loop over router.built from position i on; sel = 0 is nil
RECURSIVE MatchLoop(_, _, _, _)
MatchLoop(B, path, i, acc) ==
    IF i > Len(B) THEN acc
    ELSE IF RouteMatches(B[i], path)
    THEN MatchLoop(B, path, i + 1,
            [sel |-> i,
             params |-> WriteParams(acc.params, KeySegments(B[i].KeyRoute, path))])
    ELSE MatchLoop(B, path, i + 1, acc)

EmptyParams == [j \in {} |-> <<>>]

getRequestParams(B, path) ==
    MatchLoop(B, path, 1, [sel |-> 0, params |-> EmptyParams])

----------------------------------------------------------------------------
(* Resolution: createBuiltRoute and redirectBuiltRoute *)

\* the orders in which a range over a map of n entries may visit them
Orders(n) ==
    {o \in [1..n -> 0..(n - 1)] : \A a, b \in 1..n : o[a] = o[b] => a = b}

\* a substitution that replaces only the first variable the loop visits
BuiltPathFirst(path, params, ord) ==
    IF ord = <<>> THEN path
    ELSE LET param == params[Head(ord)]
         IN  StringsReplaceAll(path, <<"{">> \o param.Name \o <<"}">>,
                               param.Value)

\* the substitution loop of createBuiltRoute, visiting params in order ord
RECURSIVE BuiltPath(_, _, _)
BuiltPath(path, params, ord) ==
    IF ord = <<>> THEN path
    ELSE LET param == params[Head(ord)]
         IN  BuiltPath(StringsReplaceAll(path,
                           <<"{">> \o param.Name \o <<"}">>, param.Value),
                       params, Tail(ord))

\* Router.routeBuilder
routeBuilder(S, path, handleFunc, params) ==
    [S EXCEPT !.routes = Append(@, Route(path, handleFunc, params))]

\* Router.createBuiltRoute; the error of Route.methods is dropped, its
\* panic is not
createBuiltRoute(S, path, handler, ms, params, ord) ==
    LET builtPath == BuiltPath(path, params, ord)
        allParams == [k \in 1..Len(ord) |-> params[ord[k]]]
        S1        == routeBuilder(S, builtPath, handler, allParams)
        r         == RouteMethods(Route(builtPath, handler, allParams), ms, S1.mux)
    IN  [state |-> [S1 EXCEPT !.mux = r.mux], panic |-> r.panic]

\* a write-back that stores the request's value under Name and the old
\* name under Value
WriteBackSwapped(var, params) ==
    [idx \in DOMAIN var |-> Variable(params[idx], var[idx].Name)]

\* the loop of redirectBuiltRoute that stores the request's values in the
\* selected template: Var[idx] = {Name: varParam.Name, Value: params[idx]}
WriteBack(var, params) ==
    [idx \in DOMAIN var |-> Variable(var[idx].Name, params[idx])]

\* the body of redirectBuiltRoute once getRequestParams has returned m
Resolve(S, m, method, ord1, ord2) ==
    IF m.sel = 0
    THEN [state |-> S, sel |-> 0, resp |-> ServeNotFound]
    ELSE LET sb        == S.built[m.sel]
             var       == WriteBack(sb.Var, m.params)
             S1        == [S EXCEPT !.built[m.sel].Var = var]
             allParams == [k \in 1..Len(ord1) |-> var[ord1[k]]]
             c         == createBuiltRoute(S1, sb.TempPath, sb.Handler,
                                           sb.Methods, var, ord2)
         IN  [state |-> c.state, sel |-> m.sel,
              resp  |-> IF c.panic THEN ServePanic
                        ELSE ServeGate(setRouteParams(
                                 gateMethod(sb.Handler, sb.Methods),
                                 allParams), method)]

\* redirectBuiltRoute for one request; ord1 and ord2 are the orders of the
\* range loops at lines 124 and 283
redirectBuiltRoute(S, path, method, ord1, ord2) ==
    Resolve(S, getRequestParams(S.built, path), method, ord1, ord2)

\* the handler the mux holds for the dispatched pattern d, run on the
\* request; m is what getRequestParams returns for the request's path
ServeDispatched(S, d, m, method, ord1, ord2) ==
    IF d.kind = "slash"
    THEN [state |-> S, sel |-> 0, via |-> "slash", pattern |-> d.pattern,
          resp |-> ServeSlashRedirect]
    ELSE IF S.mux[d.pattern].kind = "redirect"
    THEN [via |-> "redirect", pattern |-> d.pattern]
            @@ Resolve(S, m, method, ord1, ord2)
    ELSE [state |-> S, sel |-> 0, via |-> "mux", pattern |-> d.pattern,
          resp |-> IF S.mux[d.pattern].kind = "health" THEN ServeHealth
                   ELSE ServeGate(S.mux[d.pattern], method)]

\* one request, from the mux to the response
ServeRequest(S, path, method, ord1, ord2) ==
    ServeDispatched(S, MuxDispatch(S.mux, path),
                    getRequestParams(S.built, path), method, ord1, ord2)

----------------------------------------------------------------------------
(* Use: middleware composition *)

\* a handler is its terminal handler and the middlewares wrapped around
\* it, outermost first
BaseHandler(h) == [wraps |-> <<>>, base |-> h]

\* mid(handler): the middleware runs its pre-logic, then the handler it
\* was given, then its post-logic
Wrap(mid, handler) == [handler EXCEPT !.wraps = <<mid>> \o @]

\* a loop body that takes the middlewares from the front of the list
UseStepForward(middleware, x, handler) ==
    Wrap(middleware[Len(middleware) - x], handler)

\* the body of the loop of Use for loop variable x (from 0)
UseStep(middleware, x, handler) == Wrap(middleware[x + 1], handler)

PreEvent(mid)  == [ev |-> "pre", who |-> mid]
PostEvent(mid) == [ev |-> "post", who |-> mid]
HandlerEvent(h) == [ev |-> "handler", who |-> h]

----------------------------------------------------------------------------
(* Inputs of the model *)

Handlers == {"h1", "h2"}

TplUI  == <<"/", "u", "/", "{", "i", "}">>                      \* /u/{i}
TplUJ  == <<"/", "u", "/", "{", "j", "}">>                      \* /u/{j}
TplI   == <<"/", "{", "i", "}">>                                \* /{i}
TplUIJ == <<"/", "u", "/", "{", "i", "}", "/", "{", "j", "}">>  \* /u/{i}/{j}
PathS  == <<"/", "s">>                                          \* /s

\* the registrations a behaviour may make
RegInputs ==
    { [path |-> TplUI,  handler |-> "h1", ms |-> <<"GET">>],
      [path |-> TplUJ,  handler |-> "h2", ms |-> <<"GET">>],
      [path |-> TplI,   handler |-> "h1", ms |-> <<"GET">>],
      [path |-> TplUIJ, handler |-> "h2", ms |-> <<"POST", "GET">>],
      [path |-> TplUI,  handler |-> "h1", ms |-> <<"PATCH">>],
      [path |-> PathS,  handler |-> "h1", ms |-> <<"GET">>],
      [path |-> PathS,  handler |-> "h2", ms |-> <<"PATCH", "GET">>] }

\* the request paths a behaviour may send
ReqPaths ==
    { <<"/", "u", "/", "1">>,                       \* /u/1
      <<"/", "u", "/", "1", "/", "2">>,             \* /u/1/2
      <<"/", "x", "/", "u", "/", "1">>,             \* /x/u/1
      <<"/", "u", "/", "u">>,                       \* /u/u
      <<"/", "u", "/", "u", "/", "1", "/", "2">>,   \* /u/u/1/2
      <<"/", "1">>,                                 \* /1
      <<"/", "s">>,                                 \* /s
      <<"/", "health">> }                           \* /health

ReqMethods == {"GET", "PATCH"}

----------------------------------------------------------------------------
(* The state after NewRouter, and the operations *)

Cur == RouterState(routes, built, mux, crashed)

NoOp == [op |-> "none", path |-> <<>>, method |-> "", handler |-> "none",
         ms |-> <<>>, via |-> "", pattern |-> <<>>, sel |-> 0,
         resp |-> NoResponse]

\* NewRouter: the health and catch-all handlers, and an empty router
InitMux ==
    [p \in {<<"/", "health">>, <<"/">>} |->
        IF p = <<"/">> THEN redirectClosure ELSE healthApplication]

InitRouter == RouterState(<<>>, <<>>, InitMux, FALSE)

InitUse ==
    /\ useMw = <<>> /\ useX = -1 /\ useH = BaseHandler("h")
    /\ usePc = "idle" /\ useDepth = 0 /\ useLog = <<>>

\* the package after the first NewRouter call: mainRouter is instance 1
InitNew == mainRouter = 1 /\ ret = 1 /\ nNew = 1

\* no request in flight
InitConc == procs = <<>>

Init ==
    /\ routes = <<>> /\ built = <<>> /\ mux = InitMux /\ crashed = FALSE
    /\ last = NoOp /\ nReg = 0 /\ nReq = 0
    /\ direct = InitRouter /\ todo = <<>> /\ subs = <<>>
    /\ InitUse /\ InitNew /\ InitConc

SetRouter(S) ==
    /\ routes' = S.routes /\ built' = S.built /\ mux' = S.mux
    /\ crashed' = S.crashed

\* router.HandleFunc(path, handler, ms...)
HandleFunc(in) ==
    /\ ~crashed /\ nReg < MaxReg
    /\ \E S \in {HandleFuncOp(Cur, in.path, in.handler, in.ms)} : SetRouter(S)
    /\ last' = [NoOp EXCEPT !.op = "HandleFunc", !.path = in.path,
                            !.handler = in.handler, !.ms = in.ms]
    /\ nReg' = nReg + 1
    /\ UNCHANGED <<nReq, groupVars, useVars, newVars, concVars>>

\* does the mux hand the request to redirectBuiltRoute
Redirected(S, d) == d.kind # "slash" /\ S.mux[d.pattern].kind = "redirect"

\* the number of variables of the template m selects
SelectedVars(S, m) ==
    IF m.sel = 0 THEN 0 ELSE Cardinality(DOMAIN S.built[m.sel].Var)

\* the server handles one request
Request(path, method) ==
    /\ ~crashed /\ nReq < MaxReq
    /\ \E d \in {MuxDispatch(mux, path)} :
       \E m \in {IF Redirected(Cur, d) THEN getRequestParams(built, path)
                  ELSE [sel |-> 0, params |-> EmptyParams]} :
       \E ord1, ord2 \in Orders(SelectedVars(Cur, m)) :
       \E r \in {ServeDispatched(Cur, d, m, method, ord1, ord2)} :
          /\ SetRouter(r.state)
          /\ last' = [NoOp EXCEPT !.op = "request", !.path = path,
                         !.method = method, !.via = r.via,
                         !.pattern = r.pattern, !.sel = r.sel,
                         !.resp = r.resp]
    /\ nReq' = nReq + 1
    /\ UNCHANGED <<nReg, groupVars, useVars, newVars, concVars>>

Next ==
    \/ \E in \in RegInputs : HandleFunc(in)
    \/ \E path \in ReqPaths, method \in ReqMethods : Request(path, method)

Spec == Init /\ [][Next]_vars

----------------------------------------------------------------------------
(* Vocabulary of the properties *)

Slash == <<"/">>

\* the request just handled
IsRequest == last.op = "request"

\* number of variables of a template
NumVars(t) == Cardinality(DOMAIN t.Var)

\* the /-delimited segments of a remainder that starts with a slash
Segments(rem) == Tail(StringsSplit(rem, Slash))

\* path is /prefix followed by exactly NumVars(t) segments, for a template
\* with a non-empty prefix
Fits(t, path) ==
    /\ t.KeyRoute # <<>>
    /\ IsPrefix(Slash \o t.KeyRoute \o Slash, path)
    /\ Len(Segments(Drop(path, Len(t.KeyRoute) + 2))) = NumVars(t)

\* the i-th segment (from 0) that follows the prefix in a fitting path
FitSegment(t, path, i) == Segments(Drop(path, Len(t.KeyRoute) + 2))[i + 1]

\* the templates the matcher's two tests accept for the path
Matching(path) == {t \in 1..Len(built) : RouteMatches(built[t], path)}

SetMin(S) == CHOOSE x \in S : \A y \in S : x <= y
SetMax(S) == CHOOSE x \in S : \A y \in S : y <= x

----------------------------------------------------------------------------
(* C1 *)

\* C1: positional binding.  After a request whose path is /prefix followed
\* by exactly N segments for a registered template with N variables (a
\* non-empty prefix, no other registered template fitting the same path,
\* the method declared by the template), the template's handler has been
\* invoked and sees variable i bound to the i-th segment after the prefix.
C1_PositionalBinding ==
    IsRequest =>
      \A t \in 1..Len(built) :
        ( /\ Fits(built[t], last.path)
          /\ \A u \in 1..Len(built) : u # t => ~Fits(built[u], last.path)
          /\ GatePasses(built[t].Methods, last.method) )
        => /\ last.resp.kind = "handler"
           /\ last.resp.handler = built[t].Handler
           /\ \A i \in DOMAIN built[t].Var :
                GetVar(last.resp.ctx, built[t].Var[i].Name)
                  = [nil |-> FALSE, value |-> FitSegment(built[t], last.path, i)]

----------------------------------------------------------------------------
(* C2 *)

\* C2 as stated: when two or more templates match the path of a request
\* resolved by the matcher, the earliest registered one is selected.
C2_FirstRegisteredWins ==
    (IsRequest /\ last.via = "redirect" /\ Cardinality(Matching(last.path)) >= 2)
      => last.sel = SetMin(Matching(last.path))

\* C2 amended: when two or more templates match the path of a request
\* resolved by the matcher, the latest registered one is selected, and a
\* handler that runs is that template's handler and sees exactly that
\* template's variable names.
C2_LastRegisteredWins ==
    (IsRequest /\ last.via = "redirect" /\ Cardinality(Matching(last.path)) >= 2)
      => /\ last.sel = SetMax(Matching(last.path))
         /\ last.resp.kind = "handler" =>
              /\ last.resp.handler = built[last.sel].Handler
              /\ DOMAIN last.resp.ctx
                   = {built[last.sel].Var[i].Name : i \in DOMAIN built[last.sel].Var}

\* two matching templates with different handlers and names, and a handler ran
C2_Witness ==
    /\ IsRequest /\ last.via = "redirect" /\ last.resp.kind = "handler"
    /\ Cardinality(Matching(last.path)) >= 2
    /\ LET a == built[SetMin(Matching(last.path))]
           b == built[SetMax(Matching(last.path))]
       IN  a.Handler # b.Handler /\ a.Var[0].Name # b.Var[0].Name

----------------------------------------------------------------------------
(* C3 *)

\* C3: segment-count exactness.  A template selected for a request path
\* occurs with its prefix somewhere in the path such that the number of
\* /-delimited segments after that occurrence is exactly its variable count.
C3_SegmentCountExact ==
    (IsRequest /\ last.sel # 0) =>
      LET t == built[last.sel]
      IN  \E p \in 1..Len(last.path) :
            /\ OccursAt(last.path, t.KeyRoute, p)
            /\ Len(StringsSplit(Drop(last.path, p + Len(t.KeyRoute)), Slash)) - 1
                 = NumVars(t)

----------------------------------------------------------------------------
(* C4 *)

\* C4: empty-prefix templates match.  A request that reaches the matcher
\* with a path of exactly N segments, while a template with an empty prefix
\* and N variables is registered, is resolved to some template and not
\* answered NotFound.
C4_EmptyPrefixMatches ==
    ( /\ IsRequest /\ last.via = "redirect"
      /\ \E t \in 1..Len(built) :
           /\ built[t].KeyRoute = <<>>
           /\ Len(Segments(last.path)) = NumVars(built[t]) )
    => (last.sel # 0 /\ last.resp.kind # "notFound")

----------------------------------------------------------------------------
(* C5 *)

\* the methods declared for the route a request was dispatched to
DeclaredMethods ==
    IF last.via = "redirect" THEN built[last.sel].Methods ELSE mux[last.pattern].ms

\* the request was dispatched to a route: a registered static pattern, or
\* a template chosen by the matcher
ReachedRoute ==
    /\ IsRequest
    /\ \/ last.via = "mux" /\ mux[last.pattern].kind = "gate"
       \/ last.via = "redirect" /\ last.sel # 0

\* C5: method gate.  For a request dispatched to a route, the handler is
\* invoked iff the request method is one of the route's declared methods,
\* and otherwise the response is 404 with the method error body.
C5_MethodGate ==
    ReachedRoute =>
      /\ (last.resp.kind = "handler") <=> GatePasses(DeclaredMethods, last.method)
      /\ ~GatePasses(DeclaredMethods, last.method)
           => (last.resp.status = 404 /\ last.resp.body = BodyMethod)

----------------------------------------------------------------------------
(* C6 *)

\* C6: unrecognized methods never reach a handler.  Whenever a request
\* has a handler invoked, every method declared by the route that served
\* it is one of GET, POST, PUT, DELETE, and so is the request's method.
C6_OnlyRecognizedMethods ==
    (ReachedRoute /\ last.resp.kind = "handler") =>
      /\ \A k \in 1..Len(DeclaredMethods) : checkMethod(DeclaredMethods[k])
      /\ checkMethod(last.method)

----------------------------------------------------------------------------
(* C7 *)

\* the registration just made: a path without variables, and a method list
\* with a name outside the allowed set
InvalidStaticReg(l) ==
    /\ l.op = "HandleFunc"
    /\ getBuiltRouteParams(l.path).values = <<>>
    /\ \E k \in 1..Len(l.ms) : ~checkMethod(l.ms[k])

\* C7: InvalidMethod leaves the table unchanged.  A HandleFunc call for a
\* path without variables whose method list holds a disallowed name
\* changes neither the static collection, nor the templates, nor the mux,
\* and does not panic.
C7_InvalidMethodNoChange ==
    [][(nReg' = nReg + 1 /\ InvalidStaticReg(last'))
          => (routes' = routes /\ built' = built /\ mux' = mux
                /\ crashed' = crashed)]_vars

\* such a call was made, with a valid method listed too, on a router that
\* already holds a static route
C7_Witness ==
    /\ InvalidStaticReg(last)
    /\ \E k \in 1..Len(last.ms) : checkMethod(last.ms[k])
    /\ Len(routes) >= 1

----------------------------------------------------------------------------
(* C8 *)

\* C8: duplicate-free static table.  The static collection never holds
\* two entries with the same path.
C8_DuplicateFreeStatic ==
    \A a, b \in 1..Len(routes) : a # b => routes[a].Path # routes[b].Path

----------------------------------------------------------------------------
(* Use(handler, middleware...) and one request served by its result *)

Middlewares == {"mw1", "mw2", "mw3"}

MwLists == UNION {[1..n -> Middlewares] : n \in 0..MaxMw}

\* Use is called with handler h and a middleware list: x := len - 1
InitUseCall ==
    /\ routes = <<>> /\ built = <<>> /\ mux = InitMux /\ crashed = FALSE
    /\ last = NoOp /\ nReg = 0 /\ nReq = 0
    /\ direct = InitRouter /\ todo = <<>> /\ subs = <<>>
    /\ useMw \in MwLists /\ useX = Len(useMw) - 1 /\ useH = BaseHandler("h")
    /\ usePc = "loop" /\ useDepth = 0 /\ useLog = <<>>
    /\ InitNew /\ InitConc

\* one iteration of the loop: handler = middleware[x](handler); x--
UseLoop ==
    /\ usePc = "loop" /\ useX >= 0
    /\ useH' = UseStep(useMw, useX, useH)
    /\ useX' = useX - 1
    /\ UNCHANGED <<useMw, usePc, useDepth, useLog, routerVars, groupVars, newVars, concVars>>

\* the loop ends and Use returns the handler, which then serves a request
UseReturn ==
    /\ usePc = "loop" /\ useX < 0
    /\ usePc' = "serve"
    /\ UNCHANGED <<useMw, useX, useH, useDepth, useLog, routerVars, groupVars, newVars, concVars>>

\* the next middleware on the way in runs its pre-logic
ServeEnter ==
    /\ usePc = "serve" /\ useDepth < Len(useH.wraps)
    /\ useLog' = Append(useLog, PreEvent(useH.wraps[useDepth + 1]))
    /\ useDepth' = useDepth + 1
    /\ UNCHANGED <<useMw, useX, useH, usePc, routerVars, groupVars, newVars, concVars>>

\* the terminal handler runs
ServeBase ==
    /\ usePc = "serve" /\ useDepth = Len(useH.wraps)
    /\ useLog' = Append(useLog, HandlerEvent(useH.base))
    /\ usePc' = "unwind"
    /\ UNCHANGED <<useMw, useX, useH, useDepth, routerVars, groupVars, newVars, concVars>>

\* the innermost middleware still open runs its post-logic
ServeExit ==
    /\ usePc = "unwind" /\ useDepth > 0
    /\ useLog' = Append(useLog, PostEvent(useH.wraps[useDepth]))
    /\ useDepth' = useDepth - 1
    /\ UNCHANGED <<useMw, useX, useH, usePc, routerVars, groupVars, newVars, concVars>>

ServeDone ==
    /\ usePc = "unwind" /\ useDepth = 0
    /\ usePc' = "done"
    /\ UNCHANGED <<useMw, useX, useH, useDepth, useLog, routerVars, groupVars, newVars, concVars>>

NextUse ==
    \/ UseLoop
    \/ UseReturn
    \/ ServeEnter
    \/ ServeBase
    \/ ServeExit
    \/ ServeDone

SpecUse == InitUseCall /\ [][NextUse]_vars

----------------------------------------------------------------------------
(* C9 *)

Reverse(q) == [k \in 1..Len(q) |-> q[Len(q) + 1 - k]]

Pre(q)  == [k \in 1..Len(q) |-> PreEvent(q[k])]
Post(q) == [k \in 1..Len(q) |-> PostEvent(q[k])]

\* C9 as stated: the last-listed middleware is outermost, so the pre-logic
\* runs in reverse declaration order, then h, then the post-logic in
\* declaration order.
C9_LastListedOutermost ==
    usePc = "done" =>
      useLog = Pre(Reverse(useMw)) \o <<HandlerEvent("h")>> \o Post(useMw)

\* C9 amended: the first-listed middleware is outermost, so the pre-logic
\* runs in declaration order, then h, then the post-logic in reverse
\* declaration order; with an empty list only h runs.
C9_FirstListedOutermost ==
    usePc = "done" =>
      useLog = Pre(useMw) \o <<HandlerEvent("h")>> \o Post(Reverse(useMw))

\* a request was served through two different middlewares
C9_Witness ==
    /\ usePc = "done" /\ Len(useMw) >= 2 /\ useMw[1] # useMw[2]
    /\ Len(useLog) = 2 * Len(useMw) + 1

----------------------------------------------------------------------------
(* HandleGroup against the same registrations made directly *)

GroupPaths == { <<"/", "u">>, <<"/", "x">> }

SubInputs ==
    { [path |-> <<"/", "{", "i", "}">>, handler |-> "h1", ms |-> <<"GET">>],
      [path |-> <<"/", "s">>,           handler |-> "h2", ms |-> <<"GET">>],
      [path |-> <<"/", "s">>,           handler |-> "h1", ms |-> <<"PATCH", "GET">>] }

\* a registration made before the group, on both routers
PriorHandleFunc(in) ==
    /\ ~crashed /\ nReg < MaxReg /\ todo = <<>> /\ subs = <<>>
    /\ last.op # "HandleGroup"
    /\ \E S \in {HandleFuncOp(Cur, in.path, in.handler, in.ms)} : SetRouter(S)
    /\ direct' = HandleFuncOp(direct, in.path, in.handler, in.ms)
    /\ last' = [NoOp EXCEPT !.op = "HandleFunc", !.path = in.path,
                            !.handler = in.handler, !.ms = in.ms]
    /\ nReg' = nReg + 1
    /\ UNCHANGED <<nReq, todo, subs, useVars, newVars, concVars>>

\* router.SubHandleFunc(path, handler, ms...), kept for the group call
SubHandleFuncCall(in) ==
    /\ ~crashed /\ Len(subs) < MaxSubs /\ todo = <<>>
    /\ last.op # "HandleGroup"
    /\ subs' = Append(subs, SubHandleFunc(in.path, in.handler, in.ms))
    /\ UNCHANGED <<routerVars, direct, todo, useVars, newVars, concVars>>

\* router.HandleGroup(mainPath, subs...); the direct calls the group is
\* compared with are queued for the second router
HandleGroup(mainPath) ==
    /\ ~crashed /\ todo = <<>> /\ last.op # "HandleGroup"
    /\ \E S \in {HandleGroupOp(Cur, mainPath, subs)} : SetRouter(S)
    /\ todo' = [k \in 1..Len(subs) |->
                  [path |-> mainPath \o subs[k].Path,
                   handler |-> subs[k].Handler, ms |-> subs[k].Methods]]
    /\ subs' = <<>>
    /\ last' = [NoOp EXCEPT !.op = "HandleGroup", !.path = mainPath]
    /\ UNCHANGED <<nReg, nReq, direct, useVars, newVars, concVars>>

\* the next direct call router.HandleFunc(prefix + p, h, ms...) on the
\* second router
DirectHandleFunc ==
    /\ todo # <<>>
    /\ direct' = HandleFuncOp(direct, Head(todo).path, Head(todo).handler,
                              Head(todo).ms)
    /\ todo' = Tail(todo)
    /\ UNCHANGED <<routerVars, subs, useVars, newVars, concVars>>

NextGroup ==
    \/ \E in \in RegInputs : PriorHandleFunc(in)
    \/ \E in \in SubInputs : SubHandleFuncCall(in)
    \/ \E mainPath \in GroupPaths : HandleGroup(mainPath)
    \/ DirectHandleFunc

SpecGroup == Init /\ [][NextGroup]_vars

----------------------------------------------------------------------------
(* C10 *)

\* C10: grouping equivalence.  Once the direct calls HandleFunc(prefix+p1),
\* ..., HandleFunc(prefix+pk) have all been made on the second router, it
\* is in exactly the state HandleGroup left the first one in (static
\* collection, templates, mux registrations, and a panic if any); and a
\* SubHandleFunc call by itself changes nothing of the router.
C10_GroupingEquivalence ==
    /\ [](todo = <<>> => direct = Cur)
    /\ [][Len(subs') > Len(subs) => UNCHANGED <<routes, built, mux, crashed>>]_vars

\* a group of two sub-routes registered a static route and a template on
\* a router that held a registration already, and the direct calls are done
C10_Witness ==
    /\ last.op = "HandleGroup" /\ todo = <<>> /\ nReg = 1
    /\ Len(routes) + Len(built) = 3
    /\ Len(routes) >= 1 /\ Len(built) >= 1

----------------------------------------------------------------------------
(* C11 *)

\* the step is the handling of one request
RequestStep == nReq' = nReq + 1

\* no static route and no template matches the path: the mux holds no
\* pattern for it but the catch-all, the static collection holds no entry
\* with this path, and the matcher's tests accept no template
NothingMatches(path) ==
    /\ MuxDispatch(mux, path).pattern = Slash
    /\ \A k \in 1..Len(routes) : routes[k].Path # path
    /\ Matching(path) = {}

\* C11: NotFound.  A request whose path matches no static route and no
\* template is answered with status 404 and the body
\* {"msg": "route not found"}, invokes no handler, and leaves the static
\* collection, the template collection, every template's contents and the
\* mux unchanged.
C11_NotFound ==
    [][(RequestStep /\ NothingMatches(last'.path)) =>
          /\ last'.resp.kind = "notFound"
          /\ last'.resp.status = 404
          /\ last'.resp.body = BodyNotFound
          /\ last'.resp.handler = "none"
          /\ routes' = routes /\ built' = built /\ mux' = mux
          /\ crashed' = crashed]_vars

\* a request answered not-found by a router that holds a template and a
\* static route, none of which matches the path
C11_Witness ==
    /\ IsRequest /\ last.via = "redirect" /\ last.sel = 0
    /\ last.resp.body = BodyNotFound
    /\ Len(built) >= 1 /\ Len(routes) >= 1
    /\ Matching(last.path) = {}
    /\ \A k \in 1..Len(routes) : routes[k].Path # last.path

----------------------------------------------------------------------------
(* C12 *)

\* the names a handler may ask for; k is the name of no variable
VarNames == {<<"i">>, <<"j">>, <<"k">>}

\* the name/value pairs bound for the request just served: for a request
\* resolved through a template, the template's names with the values the
\* matcher took from this request's path; for a request served by a
\* registered pattern, the parameters that were registered with it
BoundPairs ==
    IF last.via = "redirect"
    THEN LET t == built[last.sel]
             m == getRequestParams(built, last.path)
         IN  {<<t.Var[idx].Name, m.params[idx]>> : idx \in DOMAIN t.Var}
    ELSE LET ps == mux[last.pattern].params
         IN  {<<ps[k].Name, ps[k].Value>> : k \in 1..Len(ps)}

\* C12: parameter retrieval.  Inside a handler, GetVar(name) returns the
\* string bound to name for this request when name is a variable of the
\* route that served it, and nil for every other name; for a static route
\* registered without variables it returns nil for every name.
C12_ParameterRetrieval ==
    (IsRequest /\ last.resp.kind = "handler") =>
        \A name \in VarNames :
            LET got == GetVar(last.resp.ctx, name)
            IN  IF \E b \in BoundPairs : b[1] = name
                THEN ~got.nil /\ <<name, got.value>> \in BoundPairs
                ELSE got.nil

\* a handler reached through a template with two variables, which reads
\* both values of the request path and nil for a third name
C12_Witness ==
    /\ IsRequest /\ last.resp.kind = "handler" /\ last.via = "redirect"
    /\ last.path = <<"/", "u", "/", "1", "/", "2">>
    /\ NumVars(built[last.sel]) = 2
    /\ GetVar(last.resp.ctx, <<"i">>) = [nil |-> FALSE, value |-> <<"1">>]
    /\ GetVar(last.resp.ctx, <<"j">>) = [nil |-> FALSE, value |-> <<"2">>]
    /\ GetVar(last.resp.ctx, <<"k">>).nil

----------------------------------------------------------------------------
(* C16 *)

\* the request of the step was resolved through a template
ResolutionStep == RequestStep /\ last'.via = "redirect" /\ last'.sel # 0

\* path with {name} replaced by the value, for the variables i, i+1, ...
RECURSIVE Substitute(_, _, _)
Substitute(path, var, i) ==
    IF i \notin DOMAIN var THEN path
    ELSE Substitute(StringsReplaceAll(path,
                        <<"{">> \o var[i].Name \o <<"}">>, var[i].Value),
                    var, i + 1)

\* s is t with entries appended
IsExtension(s, t) == Len(t) <= Len(s) /\ SubSeq(s, 1, Len(t)) = t

\* C16: concrete-path substitution.  Each resolution through a template
\* appends exactly one static entry: its path is the template's original
\* path with every {name} replaced by the value bound for the request, its
\* handler is the template's handler, and its parameters are exactly the
\* template's name/value pairs.  No step removes or alters an existing
\* static entry.
C16_ConcretePathSubstitution ==
    [][/\ IsExtension(routes', routes)
       /\ ResolutionStep =>
            \A t \in {built[last'.sel]} :
            \A m \in {getRequestParams(built, last'.path)} :
            \A var \in {[idx \in DOMAIN t.Var |->
                            Variable(t.Var[idx].Name, m.params[idx])]} :
            \A e \in {routes'[Len(routes')]} :
                /\ Len(routes') = Len(routes) + 1
                /\ e.Path = Substitute(t.TempPath, var, 0)
                /\ e.Handler = t.Handler
                /\ Len(e.Params) = NumVars(t)
                /\ {e.Params[k] : k \in 1..Len(e.Params)}
                      = {var[idx] : idx \in DOMAIN var}]_vars

\* a resolution through a template with two variables on a router that
\* already held a static entry: the entry is kept and /u/1/2 is appended
C16_Witness ==
    /\ IsRequest /\ last.via = "redirect" /\ last.sel # 0
    /\ NumVars(built[last.sel]) = 2
    /\ Len(routes) = 2
    /\ routes[1].Path = <<"/", "s">>
    /\ routes[2].Path = <<"/", "u", "/", "1", "/", "2">>
    /\ Len(routes[2].Params) = 2

----------------------------------------------------------------------------
(* C17 *)

\* everything of a template but the Value slots of its variables
Shape(t) ==
    [TempPath |-> t.TempPath, KeyRoute |-> t.KeyRoute, Handler |-> t.Handler,
     Methods  |-> t.Methods,
     Names    |-> [idx \in DOMAIN t.Var |-> t.Var[idx].Name]]

\* C17: requests do not alter templates.  Handling a request never adds,
\* removes or reorders template entries and never changes a template's
\* TempPath, KeyRoute, Handler, Methods or position-to-name mapping; only
\* the Value slots of the selected template are written.
C17_RequestsKeepTemplates ==
    [][RequestStep =>
          /\ Len(built') = Len(built)
          /\ \A t \in 1..Len(built) :
                /\ Shape(built'[t]) = Shape(built[t])
                /\ t # last'.sel => built'[t] = built[t]]_vars

\* a request that wrote new values into the template it selected, with a
\* second template registered next to it
C17_Witness ==
    /\ IsRequest /\ last.via = "redirect" /\ last.sel # 0
    /\ Len(built) = 2
    /\ \E idx \in DOMAIN built[last.sel].Var :
          built[last.sel].Var[idx].Value # <<>>

----------------------------------------------------------------------------
(* C15 *)

\* the request just handled was resolved through a template and reached
\* the template's handler
ResolvedByTemplate ==
    /\ IsRequest /\ last.via = "redirect" /\ last.sel # 0
    /\ last.resp.kind = "handler"

\* C15: resolution caches the requested path.  After a request for path p
\* has been resolved through a template, the static collection holds an
\* entry for exactly p and the mux holds a pattern for p, so that a later
\* request for p is served without the matcher.
C15_ResolutionCachesPath ==
    ResolvedByTemplate =>
        /\ \E k \in 1..Len(routes) : routes[k].Path = last.path
        /\ last.path \in DOMAIN mux

----------------------------------------------------------------------------
(* NewRouter calls between registrations and requests *)

MaxNew == 3        \* NewRouter calls in one behaviour

\* the package before any NewRouter call: mainRouter is nil, the mux is empty
InitPackage ==
    /\ routes = <<>> /\ built = <<>> /\ mux = [p \in {} |-> redirectClosure]
    /\ crashed = FALSE
    /\ last = NoOp /\ nReg = 0 /\ nReq = 0
    /\ direct = InitRouter /\ todo = <<>> /\ subs = <<>>
    /\ InitUse /\ InitConc
    /\ mainRouter = 0 /\ ret = 0 /\ nNew = 0

\* bellt.NewRouter()
NewRouter ==
    /\ ~crashed /\ nNew < MaxNew
    /\ \E r \in {NewRouterOp(Cur, mainRouter, nNew + 1)} :
          /\ SetRouter(r.state)
          /\ mainRouter' = r.mainRouter
          /\ ret' = IF r.panic THEN ret ELSE r.mainRouter
    /\ nNew' = nNew + 1
    /\ last' = [NoOp EXCEPT !.op = "NewRouter"]
    /\ UNCHANGED <<nReg, nReq, groupVars, useVars, concVars>>

\* the registrations and requests made next to the NewRouter calls
NewRegInputs == {in \in RegInputs : in.ms = <<"GET">> /\ in.handler = "h1"}
NewReqPaths  == {<<"/", "u", "/", "1">>, <<"/", "s">>, <<"/", "health">>}

\* a router is at hand only after a NewRouter call has returned it
NextNew ==
    \/ NewRouter
    \/ ret # 0 /\ \E in \in NewRegInputs : HandleFunc(in)
    \/ ret # 0 /\ \E path \in NewReqPaths : Request(path, "GET")

SpecNew == InitPackage /\ [][NextNew]_vars

----------------------------------------------------------------------------
(* C18 *)

\* the step is a NewRouter call
NewRouterStep == nNew' = nNew + 1

\* C18: singleton router.  Every NewRouter call returns the same router
\* instance.  The first call installs the catch-all and the health
\* handler; a later call installs nothing and neither discards nor
\* changes any route or template registered so far.
C18_SingletonRouter ==
    [][/\ ret # 0 => ret' = ret
       /\ NewRouterStep =>
            /\ ret' = mainRouter' /\ ret' # 0
            /\ mainRouter = 0 =>
                  /\ DOMAIN mux' = {<<"/", "health">>, <<"/">>}
                  /\ mux'[<<"/", "health">>] = healthApplication
                  /\ mux'[<<"/">>] = redirectClosure
            /\ mainRouter # 0 =>
                  /\ mainRouter' = mainRouter
                  /\ routes' = routes /\ built' = built /\ mux' = mux
                  /\ crashed' = crashed]_vars

\* a later NewRouter call on a router that holds a static route, a
\* template and the pattern of a resolved request
C18_Witness ==
    /\ last.op = "NewRouter" /\ nNew >= 2 /\ ret = 1
    /\ Len(built) >= 1 /\ Len(routes) >= 2
    /\ Cardinality(DOMAIN mux) >= 4

----------------------------------------------------------------------------
(* Requests served concurrently: net/http runs every request in its own   *)
(* goroutine, so the statements of redirectBuiltRoute of two requests     *)
(* interleave.  A request is a process with a position and its locals.    *)

NumProcs == 2      \* requests in flight

\* the router when serving starts: two templates are registered
ServingRouter ==
    HandleFuncOp(HandleFuncOp(InitRouter, TplUI, "h1", <<"GET">>),
                 TplUIJ, "h2", <<"POST", "GET">>)

\* the paths of the requests in flight
ConcPaths ==
    { <<"/", "u", "/", "1">>, <<"/", "u", "/", "2">>,
      <<"/", "u", "/", "1", "/", "2">>, <<"/", "health">> }

\* a request that the mux has not yet dispatched
NewProc(path, method) ==
    [pc |-> "dispatch", path |-> path, method |-> method, sel |-> 0,
     params |-> EmptyParams, allParams |-> <<>>, builtPath |-> <<>>,
     cParams |-> <<>>, seen |-> <<>>, resp |-> NoResponse]

InitServing ==
    /\ routes = ServingRouter.routes /\ built = ServingRouter.built
    /\ mux = ServingRouter.mux /\ crashed = FALSE
    /\ last = NoOp /\ nReg = 0 /\ nReq = 0
    /\ direct = InitRouter /\ todo = <<>> /\ subs = <<>>
    /\ InitUse /\ InitNew
    /\ procs \in [1..NumProcs -> {NewProc(path, "GET") : path \in ConcPaths}]

Pids == DOMAIN procs

\* the process p moves on with new values of some of its locals
Move(p, new) ==
    procs' = [procs EXCEPT ![p] = new @@ procs[p]]

Finish(p, resp) == Move(p, [pc |-> "done", resp |-> resp])

concFrame == <<last, nReg, nReq, groupVars, useVars, newVars>>

\* the mux looks the path up and calls the handler of the pattern; the
\* handlers other than redirectBuiltRoute touch no shared state
Dispatch(p) ==
    /\ ~crashed /\ procs[p].pc = "dispatch"
    /\ LET d == MuxDispatch(mux, procs[p].path)
           c == mux[d.pattern]
       IN  IF d.kind = "slash" THEN Finish(p, ServeSlashRedirect)
           ELSE IF c.kind = "redirect" THEN Move(p, [pc |-> "match"])
           ELSE IF c.kind = "health" THEN Finish(p, ServeHealth)
           ELSE Finish(p, ServeGate(c, procs[p].method))
    /\ UNCHANGED <<routes, built, mux, crashed, concFrame>>

\* selectedBuilt, params := getRequestParams(r.URL.Path), and the else
\* branch when no template is selected
Match(p) ==
    /\ ~crashed /\ procs[p].pc = "match"
    /\ \E m \in {getRequestParams(built, procs[p].path)} :
          IF m.sel = 0 THEN Finish(p, ServeNotFound)
          ELSE Move(p, [pc |-> "write", sel |-> m.sel, params |-> m.params])
    /\ UNCHANGED <<routes, built, mux, crashed, concFrame>>

\* the loop that stores the values in the shared template
WriteBackStep(p) ==
    /\ ~crashed /\ procs[p].pc = "write"
    /\ built' = [built EXCEPT ![procs[p].sel].Var =
                                    WriteBack(@, procs[p].params)]
    /\ Move(p, [pc |-> "collect"])
    /\ UNCHANGED <<routes, mux, crashed, concFrame>>

\* the loop that copies the shared template's variables into allParams
Collect(p) ==
    /\ ~crashed /\ procs[p].pc = "collect"
    /\ LET var == built[procs[p].sel].Var
       IN  \E ord \in Orders(Cardinality(DOMAIN var)) :
              Move(p, [pc |-> "create",
                       allParams |-> [k \in 1..Len(ord) |-> var[ord[k]]]])
    /\ UNCHANGED <<routes, built, mux, crashed, concFrame>>

\* createBuiltRoute up to the read of r.routes in routeBuilder: the
\* substitution loop over the shared template's variables
CreateRead(p) ==
    /\ ~crashed /\ procs[p].pc = "create"
    /\ LET sb == built[procs[p].sel]
       IN  \E ord \in Orders(Cardinality(DOMAIN sb.Var)) :
              Move(p, [pc |-> "append",
                       builtPath |-> BuiltPath(sb.TempPath, sb.Var, ord),
                       cParams   |-> [k \in 1..Len(ord) |-> sb.Var[ord[k]]],
                       seen      |-> routes])
    /\ UNCHANGED <<routes, built, mux, crashed, concFrame>>

\* r.routes = append(r.routes, route) with the slice read before, then
\* Route.methods: the mux registers under its own lock, or panics
CreateAppend(p) ==
    /\ ~crashed /\ procs[p].pc = "append"
    /\ LET sb    == built[procs[p].sel]
           route == Route(procs[p].builtPath, sb.Handler, procs[p].cParams)
           r     == RouteMethods(route, sb.Methods, mux)
       IN  /\ routes' = Append(procs[p].seen, route)
           /\ mux' = r.mux
           /\ IF r.panic THEN Finish(p, ServePanic)
              ELSE Move(p, [pc |-> "serve"])
    /\ UNCHANGED <<built, crashed, concFrame>>

\* setRouteParams(gateMethod(...), allParams).ServeHTTP(w, r)
ServeResolved(p) ==
    /\ ~crashed /\ procs[p].pc = "serve"
    /\ LET sb == built[procs[p].sel]
       IN  Finish(p, ServeGate(setRouteParams(
                         gateMethod(sb.Handler, sb.Methods),
                         procs[p].allParams), procs[p].method))
    /\ UNCHANGED <<routes, built, mux, crashed, concFrame>>

\* p is about to write the Var map of a template that q is about to write
\* or to range over
MapRace(p, q) ==
    /\ p # q /\ procs[p].pc = "write"
    /\ procs[q].pc \in {"write", "collect", "create"}
    /\ procs[q].sel = procs[p].sel

\* the Go runtime may detect the unsynchronised map accesses and end the
\* program ("fatal error: concurrent map writes")
RuntimeFatal ==
    /\ ~crashed
    /\ \E p, q \in Pids : MapRace(p, q)
    /\ crashed' = TRUE
    /\ UNCHANGED <<routes, built, mux, procs, concFrame>>

NextConc ==
    \/ \E p \in Pids : Dispatch(p)
    \/ \E p \in Pids : Match(p)
    \/ \E p \in Pids : WriteBackStep(p)
    \/ \E p \in Pids : Collect(p)
    \/ \E p \in Pids : CreateRead(p)
    \/ \E p \in Pids : CreateAppend(p)
    \/ \E p \in Pids : ServeResolved(p)
    \/ RuntimeFatal

SpecConc == InitServing /\ [][NextConc]_vars

----------------------------------------------------------------------------
(* C13 *)

\* the request p went through a template and is finished
Resolved(p) == procs[p].pc = "done" /\ procs[p].sel # 0

\* the handler of p saw, for every variable of its template, the value
\* the matcher took from p's own path
SawOwnValues(p) ==
    /\ procs[p].resp.kind = "handler"
    /\ \A idx \in DOMAIN built[procs[p].sel].Var :
          GetVar(procs[p].resp.ctx, built[procs[p].sel].Var[idx].Name)
             = [nil |-> FALSE, value |-> procs[p].params[idx]]

\* C13: per-request parameter isolation under concurrency.  When two
\* requests with different paths that match the same template are handled
\* concurrently, each handler observes exactly the values of its own
\* path, whatever the interleaving.
C13_ParameterIsolation ==
    \A p, q \in Pids :
        (/\ p # q /\ Resolved(p) /\ Resolved(q)
         /\ procs[p].sel = procs[q].sel
         /\ procs[p].path # procs[q].path
         /\ procs[p].resp.kind = "handler")
        => SawOwnValues(p)

----------------------------------------------------------------------------
(* C14 *)

\* C14: no double registration race.  When two concurrent requests for
\* the same path are both resolved through a template, the concrete path
\* is registered exactly once (one static entry, one mux pattern) and both
\* requests are served by the template's handler with their bindings.
C14_SingleRegistration ==
    \A p, q \in Pids :
        (/\ p # q /\ Resolved(p) /\ Resolved(q)
         /\ procs[p].path = procs[q].path)
        => /\ Cardinality({k \in 1..Len(routes) :
                              routes[k].Path = procs[p].path}) = 1
           /\ procs[p].path \in DOMAIN mux
           /\ SawOwnValues(p) /\ SawOwnValues(q)
           /\ procs[p].resp.handler = built[procs[p].sel].Handler

====
